---- MODULE Spec2Model ----
(***************************************************************************)
(* A model of hyper's src/http/mod.rs: the keep-alive policy               *)
(* (should_keep_alive), the parser dispatch (parse), the transfer bridge   *)
(* (Stream::read / Stream::pause) and the outbound writer                  *)
(* (AsyncWriter::write / flush), and RawStatus with its interchange form.  *)
(*                                                                         *)
(* Five specifications share the module, one per component:                *)
(*   Spec           Stream and the reactor at the other end of its channel *)
(*   KeepAliveSpec  should_keep_alive over versions and Connection headers *)
(*   WriterSpec     AsyncWriter                                            *)
(*   ParseSpec      the dispatch function parse                            *)
(*   RawStatusSpec  RawStatus through its Serialize / Deserialize impls    *)
(* Each one keeps the variables of the other components at their initial   *)
(* values.                                                                 *)
(***************************************************************************)
EXTENDS Integers, Sequences, FiniteSets, TLC

VARIABLES
    \* ---- Stream (consumer side) ----
    buf,        \* Stream.buf: the prefetch buffer, a sequence of bytes
    chan,       \* messages in flight on the mpsc channel behind Stream.tx
    rx_alive,   \* the Receiver<StreamState> still exists
    sent,       \* every tx.send attempted so far: [msg, ok]
    reqs,       \* every transfer.resume()/pause() attempted so far: [op, ok]
    sync_log,   \* the callback invocations made by Stream itself
    pc,         \* position of the consumer inside read()/pause()
    call,       \* the call in progress or last returned, with the lengths
                \* of the logs when it started
    ncalls,     \* calls started so far
    \* ---- reactor side ----
    reactor,    \* "paused" | "running" | "delivering" | "gone"
    cur,        \* the StreamState the reactor received last
    seen,       \* how many entries of reqs the reactor has looked at
    delivered,  \* deliveries the reactor has made to a registered callback
    \* ---- should_keep_alive ----
    version,    \* the HttpVersion argument
    conn,       \* headers.get::<Connection>(): Absent, or the option list
    ka_done,    \* should_keep_alive has been called on (version, conn)
    ka,         \* its result
    \* ---- AsyncWriter ----
    wlog,       \* the chunks handed to transfer.write, in order
    winputs,    \* the data arguments of the write() calls, in order
    wret,       \* the value the last write()/flush() returned
    \* ---- parse ----
    rdr,        \* the bytes given to parse
    h1_ret,     \* what h1::parse returned for them
    parse_ret,  \* what parse returned for them
    \* ---- RawStatus ----
    status,     \* a RawStatus(code, reason)
    wire,       \* what its Serialize impl handed to the serializer
    status2,    \* what the Deserialize impl built from that
    raw_pc      \* "new" | "serialized" | "deserialized"

vars == << buf, chan, rx_alive, sent, reqs, sync_log, pc, call, ncalls,
           reactor, cur, seen, delivered,
           version, conn, ka_done, ka,
           wlog, winputs, wret,
           rdr, h1_ret, parse_ret,
           status, wire, status2, raw_pc >>

streamVars  == << buf, chan, rx_alive, sent, reqs, sync_log, pc, call, ncalls >>
reactorVars == << reactor, cur, seen, delivered >>
kaVars      == << version, conn, ka_done, ka >>
writerVars  == << wlog, winputs, wret >>
parseVars   == << rdr, h1_ret, parse_ret >>
rawVars     == << status, wire, status2, raw_pc >>

(***************************************************************************)
(* Bounds                                                                  *)
(***************************************************************************)
MaxBuf == 2        \* longest initial prefetch buffer
MaxCalls == 3      \* read()/pause() calls on one Stream
MaxDeliver == 1    \* deliveries the reactor makes
MaxTokens == 2     \* longest Connection option list
MaxWrites == 3     \* write() calls on one AsyncWriter
MaxData == 2       \* longest data given to one write()
MaxInput == 4      \* longest input given to parse
MaxReason == 2     \* longest reason phrase of a RawStatus

Byte == {0, 1}
Callbacks == {1, 2}
NoCallback == 0

SeqsUpTo(S, n) == UNION { [1..k -> S] : k \in 0..n }

(***************************************************************************)
(* Values shared by the components                                         *)
(***************************************************************************)
NoCall == [op |-> "none", cb |-> NoCallback, buf0 |-> << >>,
           sent0 |-> 0, reqs0 |-> 0, sync0 |-> 0]

InitStream ==
    /\ buf = << >> /\ chan = << >> /\ rx_alive = TRUE
    /\ sent = << >> /\ reqs = << >> /\ sync_log = << >>
    /\ pc = "idle" /\ call = NoCall /\ ncalls = 0

InitKeepAlive ==
    /\ version = "Http11" /\ conn = [present |-> FALSE, opts |-> << >>]
    /\ ka_done = FALSE /\ ka = FALSE

InitWriter ==
    /\ wlog = << >> /\ winputs = << >> /\ wret = [ok |-> TRUE, n |-> 0, op |-> "none"]

InitParse ==
    /\ rdr = << >> /\ h1_ret = [kind |-> "unset", consumed |-> 0]
    /\ parse_ret = [kind |-> "unset", consumed |-> 0]

InitRaw ==
    /\ status = [code |-> 0, reason |-> [cow |-> "Borrowed", text |-> << >>]]
    /\ wire = << 0, << >> >>
    /\ status2 = [code |-> 0, reason |-> [cow |-> "Borrowed", text |-> << >>]]
    /\ raw_pc = "new"

(***************************************************************************)
(* StreamState (enum StreamState)                                          *)
(***************************************************************************)
Paused == [st |-> "Paused", cb |-> NoCallback]
Reading(on_read) == [st |-> "Reading", cb |-> on_read]

InitReactor ==
    /\ reactor = "paused" /\ cur = Paused /\ seen = 0 /\ delivered = 0

(***************************************************************************)
(* Stream                                                                  *)
(***************************************************************************)
\* Vec::is_empty
is_empty_inverted(b) == Len(b) # 0
is_empty(b) == Len(b) = 0

\* Vec::truncate(n): keeps the first n elements, a no-op when n >= len
truncate_noop(b, n) == b
truncate(b, n) == IF n < Len(b) THEN SubSeq(b, 1, n) ELSE b

\* The callback invocations of the buffered path, in program order:
\* on_read.on_data(&self.buf) and then on_read.on_eof().
on_data(on_read, data) == [cb |-> on_read, ev |-> "on_data", data |-> data]
on_eof(on_read) == [cb |-> on_read, ev |-> "on_eof", data |-> << >>]
buffered_delivery_no_eof(on_read, b) == << on_data(on_read, b) >>
buffered_delivery(on_read, b) == << on_data(on_read, b), on_eof(on_read) >>

\* `let _ = <Result>`: the result is dropped, execution continues.
discard_unwrap(res) == IF res = "Err" THEN "panic" ELSE "continue"
discard(res) == "continue"

\* mpsc::Sender::send on an asynchronous (unbounded) channel never blocks.
send_ready_rendezvous(ch) == ch = << >>
send_ready(ch) == TRUE

\* mpsc::Sender::send: Err(SendError(msg)) once the receiver is gone, the
\* message is then handed back and dropped; otherwise it is queued.
send_result == IF rx_alive THEN "Ok" ELSE "Err"
tx_send_deferred(msg) ==
    /\ sent' = sent
    /\ chan' = chan
tx_send(msg) ==
    /\ sent' = Append(sent, [msg |-> msg, ok |-> rx_alive])
    /\ chan' = IF rx_alive THEN Append(chan, msg) ELSE chan

\* tick::Transfer::resume / pause return a Result; either outcome is possible
\* whatever the reactor is doing.
XferResults == {"Ok", "Err"}
transfer_request(op, res) ==
    reqs' = Append(reqs, [op |-> op, ok |-> (res = "Ok")])

\* The request each operation makes of the transfer handle.
read_request_pause == "pause"
read_request == "resume"
pause_request_resume == "resume"
pause_request == "pause"

\* The state update pause() sends.
pause_state_reading == Reading(NoCallback)
pause_state == Paused

CallStart(op, on_read) ==
    [op |-> op, cb |-> on_read, buf0 |-> buf,
     sent0 |-> Len(sent), reqs0 |-> Len(reqs), sync0 |-> Len(sync_log)]

After(outcome, next) == IF outcome = "panic" THEN "panicked" ELSE next

\* read(), buffer not empty: deliver synchronously and return.
read_buffered(on_read) ==
    /\ pc = "idle" /\ ncalls < MaxCalls
    /\ ~is_empty(buf)
    /\ call' = CallStart("read", on_read)
    /\ sync_log' = sync_log \o buffered_delivery(on_read, buf)
    /\ buf' = truncate(buf, 0)
    /\ ncalls' = ncalls + 1
    /\ pc' = "idle"
    /\ UNCHANGED << chan, rx_alive, sent, reqs >>
    /\ UNCHANGED << reactorVars, kaVars, writerVars, parseVars, rawVars >>

\* read(), buffer empty, first half: tx.send(StreamState::Reading(on_read)).
read_send(on_read) ==
    /\ pc = "idle" /\ ncalls < MaxCalls
    /\ is_empty(buf)
    /\ send_ready(chan)
    /\ call' = CallStart("read", on_read)
    /\ tx_send(Reading(on_read))
    /\ ncalls' = ncalls + 1
    /\ pc' = After(discard(send_result), "read_resume")
    /\ UNCHANGED << buf, rx_alive, reqs, sync_log >>
    /\ UNCHANGED << reactorVars, kaVars, writerVars, parseVars, rawVars >>

\* read(), buffer empty, second half: transfer.resume(), then return.
read_resume ==
    /\ pc = "read_resume"
    /\ \E res \in XferResults :
         /\ transfer_request(read_request, res)
         /\ pc' = After(discard(res), "idle")
    /\ UNCHANGED << buf, chan, rx_alive, sent, sync_log, call, ncalls >>
    /\ UNCHANGED << reactorVars, kaVars, writerVars, parseVars, rawVars >>

read(on_read) == read_buffered(on_read) \/ read_send(on_read)

\* pause(), first half: tx.send(StreamState::Paused).
pause_send ==
    /\ pc = "idle" /\ ncalls < MaxCalls
    /\ send_ready(chan)
    /\ call' = CallStart("pause", NoCallback)
    /\ tx_send(pause_state)
    /\ ncalls' = ncalls + 1
    /\ pc' = After(discard(send_result), "pause_xfer")
    /\ UNCHANGED << buf, rx_alive, reqs, sync_log >>
    /\ UNCHANGED << reactorVars, kaVars, writerVars, parseVars, rawVars >>

\* pause(), second half: transfer.pause(), then return.
pause_xfer ==
    /\ pc = "pause_xfer"
    /\ \E res \in XferResults :
         /\ transfer_request(pause_request, res)
         /\ pc' = After(discard(res), "idle")
    /\ UNCHANGED << buf, chan, rx_alive, sent, sync_log, call, ncalls >>
    /\ UNCHANGED << reactorVars, kaVars, writerVars, parseVars, rawVars >>

(***************************************************************************)
(* The reactor at the other end of the channel and of the transfer handle  *)
(***************************************************************************)
\* The reactor takes the next StreamState off the channel; the newest one
\* replaces what it held.
ReactorRecv ==
    /\ rx_alive /\ chan # << >>
    /\ cur' = Head(chan)
    /\ chan' = Tail(chan)
    /\ UNCHANGED << buf, rx_alive, sent, reqs, sync_log, pc, call, ncalls >>
    /\ UNCHANGED << reactor, seen, delivered >>
    /\ UNCHANGED << kaVars, writerVars, parseVars, rawVars >>

\* The reactor honours the next pause/resume request, if it was accepted.
ReactorHonor ==
    /\ reactor \in {"paused", "running"}
    /\ seen < Len(reqs)
    /\ seen' = seen + 1
    /\ reactor' = IF ~reqs[seen + 1].ok THEN reactor
                  ELSE IF reqs[seen + 1].op = "resume" THEN "running"
                  ELSE "paused"
    /\ UNCHANGED << streamVars, cur, delivered, kaVars, writerVars, parseVars, rawVars >>

\* The reactor starts and finishes handing bytes to the registered callback.
ReactorBeginDeliver ==
    /\ reactor = "running" /\ cur.st = "Reading"
    /\ delivered < MaxDeliver
    /\ reactor' = "delivering"
    /\ UNCHANGED << streamVars, cur, seen, delivered, kaVars, writerVars, parseVars, rawVars >>

ReactorEndDeliver ==
    /\ reactor = "delivering"
    /\ reactor' = "running"
    /\ delivered' = delivered + 1
    /\ UNCHANGED << streamVars, cur, seen, kaVars, writerVars, parseVars, rawVars >>

\* The reactor tears the connection down: the receiver is dropped, and with
\* it whatever was still queued.
ReactorTeardown ==
    /\ reactor # "gone"
    /\ reactor' = "gone"
    /\ rx_alive' = FALSE
    /\ chan' = << >>
    /\ UNCHANGED << buf, sent, reqs, sync_log, pc, call, ncalls >>
    /\ UNCHANGED << cur, seen, delivered, kaVars, writerVars, parseVars, rawVars >>

\* Stream::new(tx, transfer, buf): any prefetched bytes.
Init ==
    /\ buf \in SeqsUpTo(Byte, MaxBuf)
    /\ chan = << >> /\ rx_alive = TRUE
    /\ sent = << >> /\ reqs = << >> /\ sync_log = << >>
    /\ pc = "idle" /\ call = NoCall /\ ncalls = 0
    /\ InitReactor /\ InitKeepAlive /\ InitWriter /\ InitParse /\ InitRaw

Next ==
    \/ \E on_read \in Callbacks : read(on_read)
    \/ read_resume
    \/ pause_send
    \/ pause_xfer
    \/ ReactorRecv
    \/ ReactorHonor
    \/ ReactorBeginDeliver
    \/ ReactorEndDeliver
    \/ ReactorTeardown

Spec == Init /\ [][Next]_vars

(***************************************************************************)
(* Observations of the call in progress or last returned                   *)
(***************************************************************************)
CallSent == SubSeq(sent, call.sent0 + 1, Len(sent))
CallReqs == SubSeq(reqs, call.reqs0 + 1, Len(reqs))
CallSync == SubSeq(sync_log, call.sync0 + 1, Len(sync_log))
Returned == pc = "idle" /\ call.op # "none"
CallFailed ==
    \/ \E i \in 1..Len(CallSent) : ~CallSent[i].ok
    \/ \E i \in 1..Len(CallReqs) : ~CallReqs[i].ok

(***************************************************************************)
(* Claims about Stream, checked under Spec                                 *)
(***************************************************************************)
\* C1: a read(on_read) that finds the prefetch buffer non-empty gives on_read
\* exactly one on_data carrying exactly the buffered bytes and then exactly
\* one on_eof; the buffer is empty when it returns; the call sends nothing on
\* the control channel and makes no request of the transfer handle.
C1_BufferedRead ==
    (Returned /\ call.op = "read" /\ call.buf0 # << >>) =>
        /\ CallSync = << on_data(call.cb, call.buf0), on_eof(call.cb) >>
        /\ buf = << >>
        /\ CallSent = << >>
        /\ CallReqs = << >>

C1_Witness ==
    /\ Returned /\ call.op = "read" /\ Len(call.buf0) = MaxBuf
    /\ Len(CallSync) = 2 /\ CallSync[1].data = call.buf0

\* C2: a read(on_read) that finds the prefetch buffer empty sends exactly one
\* StreamState::Reading(on_read), makes exactly one resume() request and no
\* pause() request, and does not itself call on_data or on_eof; between its
\* two steps the update is sent and no request is made yet.
C2_EmptyRead ==
    /\ (Returned /\ call.op = "read" /\ call.buf0 = << >>) =>
          /\ Len(CallSent) = 1 /\ CallSent[1].msg = Reading(call.cb)
          /\ Len(CallReqs) = 1 /\ CallReqs[1].op = "resume"
          /\ CallSync = << >>
    /\ pc = "read_resume" =>
          /\ Len(CallSent) = 1 /\ CallSent[1].msg = Reading(call.cb)
          /\ CallReqs = << >>
          /\ CallSync = << >>

C2_Witness ==
    /\ Returned /\ call.op = "read" /\ call.buf0 = << >>
    /\ Len(CallSent) = 1 /\ Len(CallReqs) = 1 /\ call.sent0 > 0

\* C3: every pause(), with the prefetch buffer empty or not, sends exactly one
\* StreamState::Paused and makes exactly one pause() request and no resume()
\* request.
C3_Pause ==
    /\ (Returned /\ call.op = "pause") =>
          /\ Len(CallSent) = 1 /\ CallSent[1].msg = Paused
          /\ Len(CallReqs) = 1 /\ CallReqs[1].op = "pause"
    /\ pc = "pause_xfer" =>
          /\ Len(CallSent) = 1 /\ CallSent[1].msg = Paused
          /\ CallReqs = << >>

C3_Witness ==
    /\ Returned /\ call.op = "pause" /\ buf # << >>
    /\ Len(CallSent) = 1 /\ Len(CallReqs) = 1

\* C6: in every reachable state, a non-empty prefetch buffer means this Stream
\* has made no resume() request so far.
C6_NonEmptyBufferNoResume ==
    buf # << >> => \A i \in 1..Len(reqs) : reqs[i].op # "resume"

C6_Witness ==
    /\ buf # << >> /\ Returned /\ ncalls >= 2 /\ Len(reqs) >= 2

\* C7: when the channel send fails or pause()/resume() returns an error, read
\* and pause still return normally (no panic), each of the send and the
\* request was attempted exactly once, and the prefetch buffer is as the call
\* found it.
C7_FailuresSwallowed ==
    /\ pc # "panicked"
    /\ (Returned /\ CallFailed) =>
          /\ Len(CallSent) = 1
          /\ Len(CallReqs) = 1
          /\ buf = call.buf0

C7_Witness ==
    /\ Returned /\ call.op = "read"
    /\ Len(CallSent) = 1 /\ ~CallSent[1].ok
    /\ Len(CallReqs) = 1 /\ ~CallReqs[1].ok

\* C8: read() never waits for the reactor: whatever the reactor is doing
\* (paused, running, mid-delivery, torn down), a consumer that is not inside a
\* call can start a read, and a read past its send can make its resume()
\* request and return.
C8_ReadNeverBlocks ==
    /\ pc \in {"idle", "read_resume", "pause_xfer"}
    /\ (pc = "idle" /\ ncalls < MaxCalls) =>
          \A on_read \in Callbacks : ENABLED read(on_read)
    /\ pc = "read_resume" => ENABLED read_resume

C8_Witness ==
    /\ pc = "read_resume" /\ reactor = "delivering" /\ chan # << >>

(***************************************************************************)
(* should_keep_alive                                                       *)
(***************************************************************************)
\* version::HttpVersion; this file imports Http10 and Http11 by name and
\* takes any HttpVersion.
HttpVersion == {"Http09", "Http10", "Http11", "Http20"}

\* header::ConnectionOption: KeepAlive, Close, or any other option name.
ConnectionOption == {"KeepAlive", "Close", "Other"}

\* headers.get::<Connection>(): None, or Some(list of options).
Absent == [present |-> FALSE, opts |-> << >>]
Present(options) == [present |-> TRUE, opts |-> options]
ConnectionValues ==
    {Absent} \cup {Present(o) : o \in SeqsUpTo(ConnectionOption, MaxTokens)}

\* conn.contains(&option), for conn the value inside Some
contains(c, option) == \E i \in 1..Len(c.opts) : c.opts[i] = option

\* The match of should_keep_alive, arm by arm, first match first.
should_keep_alive_default_true(v, c) ==
    IF v = "Http10" /\ c # Absent /\ ~contains(c, "KeepAlive") THEN FALSE
    ELSE IF v = "Http11" /\ c # Absent /\ contains(c, "Close") THEN FALSE
    ELSE TRUE
should_keep_alive(v, c) ==
    IF v = "Http10" /\ c = Absent THEN FALSE
    ELSE IF v = "Http10" /\ c # Absent /\ ~contains(c, "KeepAlive") THEN FALSE
    ELSE IF v = "Http11" /\ c # Absent /\ contains(c, "Close") THEN FALSE
    ELSE TRUE

\* One call of should_keep_alive(version, &headers).
call_should_keep_alive ==
    /\ ~ka_done
    /\ ka' = should_keep_alive(version, conn)
    /\ ka_done' = TRUE
    /\ UNCHANGED << version, conn >>
    /\ UNCHANGED << streamVars, reactorVars, writerVars, parseVars, rawVars >>

KeepAliveInit ==
    /\ version \in HttpVersion
    /\ conn \in ConnectionValues
    /\ ka_done = FALSE /\ ka = FALSE
    /\ InitStream /\ InitReactor /\ InitWriter /\ InitParse /\ InitRaw

KeepAliveNext == call_should_keep_alive

KeepAliveSpec == KeepAliveInit /\ [][KeepAliveNext]_vars

\* The decision table of the keep-alive policy, row by row.
KeepAliveTable(v, c) ==
    IF v = "Http10" /\ c = Absent THEN FALSE
    ELSE IF v = "Http10" /\ ~contains(c, "KeepAlive") THEN FALSE
    ELSE IF v = "Http10" THEN TRUE
    ELSE IF c # Absent /\ contains(c, "Close") THEN FALSE
    ELSE TRUE

\* C4: for version 1.0 or 1.1 and a Connection header absent or holding any
\* list of options, should_keep_alive returns the boolean of the decision
\* table; a header-less 1.0 message gives false, a header-less 1.1 message
\* gives true.
C4_DecisionTable ==
    (ka_done /\ version \in {"Http10", "Http11"}) =>
        /\ ka = KeepAliveTable(version, conn)
        /\ (conn = Absent /\ version = "Http10") => ka = FALSE
        /\ (conn = Absent /\ version = "Http11") => ka = TRUE

C4_Witness ==
    /\ ka_done /\ version = "Http10" /\ conn = Absent /\ ka = FALSE

\* C5: with the Connection header set to "close" should_keep_alive returns
\* false for every protocol version; with it set to "keep-alive" it returns
\* true for HTTP/1.0 and HTTP/1.1.
C5_CloseForcesFalse ==
    ka_done =>
        /\ conn = Present(<< "Close" >>) => ka = FALSE
        /\ (conn = Present(<< "KeepAlive" >>) /\ version \in {"Http10", "Http11"}) => ka = TRUE

(***************************************************************************)
(* AsyncWriter                                                             *)
(***************************************************************************)
\* transfer.write(data): the handle takes the chunk.
transfer_write_skip_empty(log, data) == IF data = << >> THEN log ELSE Append(log, data)
transfer_write(log, data) == Append(log, data)

\* let len = data.len(); ...; Ok(len)
write_result(data) == [ok |-> TRUE, n |-> Len(data), op |-> "write"]

\* AsyncWriter::write(data)
write(data) ==
    /\ Len(winputs) < MaxWrites
    /\ winputs' = Append(winputs, data)
    /\ wlog' = transfer_write(wlog, data)
    /\ wret' = write_result(data)
    /\ UNCHANGED << streamVars, reactorVars, kaVars, parseVars, rawVars >>

\* AsyncWriter::flush(): Ok(()) and nothing else.
flush_writes_empty_chunk ==
    /\ wret' = [ok |-> TRUE, n |-> 0, op |-> "flush"]
    /\ wlog' = transfer_write(wlog, << >>)
    /\ UNCHANGED winputs
    /\ UNCHANGED << streamVars, reactorVars, kaVars, parseVars, rawVars >>
flush ==
    /\ wret' = [ok |-> TRUE, n |-> 0, op |-> "flush"]
    /\ UNCHANGED << wlog, winputs >>
    /\ UNCHANGED << streamVars, reactorVars, kaVars, parseVars, rawVars >>

WriterInit ==
    /\ InitWriter /\ InitStream /\ InitReactor /\ InitKeepAlive /\ InitParse
    /\ InitRaw

WriterNext ==
    \/ \E data \in SeqsUpTo(Byte, MaxData) : write(data)
    \/ flush

WriterSpec == WriterInit /\ [][WriterNext]_vars

\* C9: write(data) hands the transfer handle exactly one chunk, equal to data
\* (the empty one included), and returns Ok(n) with n the full length of data;
\* over any sequence of writes the chunks handed over are the inputs, in call
\* order.
C9_WriteForwardsAll ==
    /\ wlog = winputs
    /\ wret.op = "write" =>
          /\ wret.ok
          /\ wret.n = Len(winputs[Len(winputs)])

C9_Witness ==
    /\ Len(winputs) = 2 /\ winputs[1] = << >> /\ Len(winputs[2]) = MaxData
    /\ wret.op = "write" /\ wret.n = MaxData

(***************************************************************************)
(* parse                                                                   *)
(***************************************************************************)
\* ParseResult<T>: Ok(None), Err(e), or Ok(Some((head, consumed))) with
\* consumed no more than the input holds.
ParseOutcomes(bytes) ==
    {[kind |-> "None", consumed |-> 0], [kind |-> "Err", consumed |-> 0]}
        \cup {[kind |-> "Some", consumed |-> n] : n \in 0..Len(bytes)}

\* parse::<T, I>(rdr) is h1::parse::<T, I>(rdr): the value it got is the
\* value it returns.
parse_err_as_none(h1_result) ==
    IF h1_result.kind = "Err" THEN [kind |-> "None", consumed |-> 0] ELSE h1_result
parse(h1_result) == h1_result

\* One call of parse(rdr); outcome is what h1::parse makes of these bytes.
parse_call(bytes, outcome) ==
    /\ h1_ret.kind = "unset"
    /\ rdr' = bytes
    /\ h1_ret' = outcome
    /\ parse_ret' = parse(outcome)
    /\ UNCHANGED << streamVars, reactorVars, kaVars, writerVars, rawVars >>

ParseInit ==
    /\ InitParse /\ InitStream /\ InitReactor /\ InitKeepAlive /\ InitWriter
    /\ InitRaw

ParseNext ==
    \E bytes \in SeqsUpTo(Byte, MaxInput) :
        \E outcome \in ParseOutcomes(bytes) : parse_call(bytes, outcome)

ParseSpec == ParseInit /\ [][ParseNext]_vars

\* C10: parse returns the outcome the HTTP/1.x parser returned for the same
\* bytes: incomplete stays incomplete, an error stays an error, a complete
\* head stays complete with the same bytes_consumed.
C10_DispatchForwards ==
    /\ h1_ret.kind = "None" => parse_ret.kind = "None"
    /\ h1_ret.kind = "Err" => parse_ret.kind = "Err"
    /\ h1_ret.kind = "Some" =>
          (parse_ret.kind = "Some" /\ parse_ret.consumed = h1_ret.consumed)

C10_Witness ==
    /\ h1_ret.kind = "Err" /\ parse_ret.kind = "Err" /\ Len(rdr) = MaxInput

(***************************************************************************)
(* RawStatus and its interchange form                                      *)
(***************************************************************************)
\* u16
U16Modulus == 65536
u16(n) == n % U16Modulus
u8(n) == n % 256

\* Cow<'static, str>: borrowed or owned, the same text either way.
Char == {"a", "b"}
Cow(kind, text) == [cow |-> kind, text |-> text]

\* RawStatus(pub u16, pub Cow<'static, str>)
RawStatus(code, reason) == [code |-> code, reason |-> reason]
RawStatuses ==
    { RawStatus(code, Cow(kind, text)) :
        code \in {0, 200, 404, U16Modulus - 1},
        kind \in {"Borrowed", "Owned"},
        text \in SeqsUpTo(Char, MaxReason) }

\* #[derive(PartialEq)]: the codes agree and the reasons agree; two Cow are
\* equal when the texts they hold are.
raw_status_eq(a, b) == a.code = b.code /\ a.reason.text = b.reason.text

\* Serialize: (self.0, &self.1).serialize(serializer), the pair of the code
\* and the reason's text.
serialize(s) == << s.code, s.reason.text >>

\* Deserialize: the pair is read as (u16, String) and the String becomes an
\* owned reason.
deserialize_code_u8(representation) ==
    RawStatus(u8(representation[1]), Cow("Owned", representation[2]))
deserialize(representation) ==
    RawStatus(u16(representation[1]), Cow("Owned", representation[2]))

serialize_step ==
    /\ raw_pc = "new"
    /\ wire' = serialize(status)
    /\ raw_pc' = "serialized"
    /\ UNCHANGED << status, status2 >>
    /\ UNCHANGED << streamVars, reactorVars, kaVars, writerVars, parseVars >>

deserialize_step ==
    /\ raw_pc = "serialized"
    /\ status2' = deserialize(wire)
    /\ raw_pc' = "deserialized"
    /\ UNCHANGED << status, wire >>
    /\ UNCHANGED << streamVars, reactorVars, kaVars, writerVars, parseVars >>

RawStatusInit ==
    /\ status \in RawStatuses
    /\ wire = << 0, << >> >>
    /\ status2 = RawStatus(0, Cow("Borrowed", << >>))
    /\ raw_pc = "new"
    /\ InitStream /\ InitReactor /\ InitKeepAlive /\ InitWriter /\ InitParse

RawStatusNext == serialize_step \/ deserialize_step

RawStatusSpec == RawStatusInit /\ [][RawStatusNext]_vars

\* C11: serializing a RawStatus(code, reason) as the pair (code, reason) and
\* deserializing the result gives a RawStatus equal to the original: the same
\* code and the same reason text.
C11_RoundTrip ==
    raw_pc = "deserialized" => raw_status_eq(status2, status)

C11_Witness ==
    /\ raw_pc = "deserialized" /\ status.code = 404
    /\ status.reason.cow = "Borrowed" /\ status2.reason.cow = "Owned"
    /\ Len(status.reason.text) = MaxReason /\ status2.reason.text = status.reason.text

\* C12: flush() always returns Ok and changes nothing: a step that returns
\* from flush hands the transfer handle no request (the handle has been asked
\* exactly what it had been asked before) and leaves the writer and
\* everything else as they were, after any sequence of writes.
C12_FlushIsNoOp ==
    [][wret'.op = "flush" =>
          /\ wret'.ok
          /\ wlog' = wlog
          /\ winputs' = winputs
          /\ UNCHANGED << streamVars, reactorVars, kaVars, parseVars, rawVars >>]_vars

C12_Witness ==
    /\ wret.op = "flush" /\ Len(wlog) = 2 /\ wlog = winputs
    /\ Len(wlog[2]) = MaxData

(***************************************************************************)
(* Claims about the two logs of a Stream, checked under Spec               *)
(***************************************************************************)
\* A state update and a request of the transfer handle belong together:
\* Reading with resume, Paused with pause.
Matches(msg, op) ==
    \/ op = "resume" /\ msg.st = "Reading"
    \/ op = "pause" /\ msg.st = "Paused"

\* C13: inside a read (empty buffer) and inside a pause the state update is
\* sent before the request is made of the transfer handle: the sends are
\* never behind the requests; every request the reactor has seen comes after
\* the send of its own call's update (Reading for resume, Paused for pause);
\* and between the two steps of a call, with the receiver alive, the update
\* is the newest message in the channel or, once received, the state the
\* reactor holds.
C13_SendBeforeRequest ==
    /\ Len(reqs) <= Len(sent)
    /\ seen <= Len(reqs)
    /\ \A k \in 1..seen : Matches(sent[k].msg, reqs[k].op)
    /\ CallReqs # << >> =>
          /\ Len(CallSent) = 1
          /\ Matches(CallSent[1].msg, CallReqs[1].op)
          /\ CallSent[1].msg.cb = call.cb
    /\ (pc \in {"read_resume", "pause_xfer"} /\ rx_alive) =>
          /\ Len(sent) = Len(reqs) + 1
          /\ \/ chan # << >> /\ chan[Len(chan)] = CallSent[1].msg
             \/ chan = << >> /\ cur = CallSent[1].msg

C13_Witness ==
    /\ seen = 2 /\ reqs[1].op = "resume" /\ reqs[2].op = "pause"
    /\ reqs[1].ok /\ reqs[2].ok /\ reactor = "paused"
    /\ sent[1].msg.st = "Reading" /\ sent[2].msg.st = "Paused"

\* C14: after any sequence of completed read() and pause() calls the state
\* updates sent and the requests made correspond one to one, in order
\* (Reading with resume, Paused with pause), so the last of each agree; and a
\* reactor that has received every update holds the one of the consumer's
\* last call that was not served from the buffer.
C14_LogsCorrespond ==
    pc = "idle" =>
        /\ Len(sent) = Len(reqs)
        /\ \A k \in 1..Len(sent) : Matches(sent[k].msg, reqs[k].op)
        /\ (rx_alive /\ chan = << >> /\ sent # << >>) =>
              cur = sent[Len(sent)].msg
        /\ (call.op = "read" /\ call.buf0 = << >>) =>
              sent[Len(sent)].msg = Reading(call.cb)
        /\ call.op = "pause" => sent[Len(sent)].msg = Paused

C14_Witness ==
    /\ pc = "idle" /\ Len(sent) = 3 /\ Len(reqs) = 3
    /\ sent[1].msg.st = "Reading" /\ sent[2].msg.st = "Paused"
    /\ sent[3].msg = Reading(2)
    /\ rx_alive /\ chan = << >> /\ cur = Reading(2)

\* C15: over any sequence of read() and pause() calls the prefetch buffer
\* never grows and changes only in a read() that finds it non-empty, which
\* empties it and hands exactly those bytes, then end-of-data, to that read's
\* callback; pause() leaves it alone; once empty it stays empty; so Stream
\* itself delivers at most once, to one callback, with one end-of-data; and
\* every read() that finds the buffer empty goes to the reactor.
C15_BufferOnlyDrains ==
    /\ [](\/ sync_log = << >>
          \/ /\ Len(sync_log) = 2
             /\ sync_log[1].ev = "on_data" /\ sync_log[2].ev = "on_eof"
             /\ sync_log[1].cb = sync_log[2].cb
             /\ buf = << >>)
    /\ [][/\ Len(buf') <= Len(buf)
          /\ buf = << >> => buf' = << >>
          /\ buf' # buf =>
                /\ buf' = << >>
                /\ ncalls' = ncalls + 1 /\ call'.op = "read"
                /\ sync_log' = sync_log \o
                       << on_data(call'.cb, buf), on_eof(call'.cb) >>
          /\ (ncalls' # ncalls /\ call'.op = "pause") => buf' = buf
          /\ (ncalls' # ncalls /\ call'.op = "read" /\ buf = << >>) =>
                /\ Len(sent') = Len(sent) + 1
                /\ sent'[Len(sent')].msg = Reading(call'.cb)
                /\ sync_log' = sync_log]_vars

C15_Witness ==
    /\ Returned /\ call.op = "read" /\ call.buf0 = << >> /\ ncalls = 3
    /\ Len(sync_log) = 2 /\ Len(sync_log[1].data) = MaxBuf
    /\ Len(sent) = 2 /\ sent[1].msg.st = "Paused"

====
